---- MODULE Spec2Model ----
(***************************************************************************)
(* Model of the CLIO diagram generators                                    *)
(*   scripts/generate_clio_proposal_diagrams.py                            *)
(*   scripts/generate_clio_architecture_png.py                             *)
(*                                                                         *)
(* Coordinates are axes fractions held as integers in units of 1/10000     *)
(* (0.72 is 7200, 0.0325 is 325); every literal of the scripts has at most *)
(* four decimals, and every halving the scripts perform lands on such a    *)
(* unit.  Curvatures (arc3 rad) are held in units of 1/100.  The binary    *)
(* floats of the scripts differ from these decimals by rounding noise of   *)
(* about 1e-16, far below the 0.0005 the layout ever distinguishes.        *)
(* Colours, fonts and line widths do not influence any draw call's         *)
(* position or order and are left out of the draw records.                 *)
(***************************************************************************)
EXTENDS Integers, Sequences, FiniteSets, TLC

VARIABLES
    script,     \* program being run: "none", "proposal", "architecture", "direct"
    status,     \* "idle", "running", "done", "failed" (uncaught exception)
    mainpc,     \* index of the next statement of main (proposal script)
    gen,        \* generator executing: "none", "layered", "role", "arch"
    pc,         \* position inside the generator
    args,       \* arguments of the running generate_role_dfd call
    fig,        \* the call's local figure handle (0: none)
    ops,        \* draw calls made on the axes of fig, in call order
    openFigs,   \* pyplot's registry of open figure handles
    nextFig,    \* number of figures created so far
    figUsers,   \* figUsers[f]: the generator calls that used figure f
    calls,      \* number of generator calls started
    dirExists,  \* docs/architecture exists
    artifacts,  \* files completely written, by name
    printed,    \* lines written to stdout, in order
    ioError     \* history: mkdir or savefig has raised

vars == <<script, status, mainpc, gen, pc, args, fig, ops, openFigs, nextFig,
          figUsers, calls, dirExists, artifacts, printed, ioError>>

----------------------------------------------------------------------------
\* Bounds of the explored inputs.
MaxActors == 4
MaxActions == 6
MaxLines == 6
MaxCalls == 2

Min(a, b) == IF a < b THEN a ELSE b

\* Python's seq[:k]
Prefix(s, k) == SubSeq(s, 1, Min(k, Len(s)))

----------------------------------------------------------------------------
\* Draw records: one per call on the axes.
NoText == <<>>

Line(x1, y1, x2, y2) ==
    [kind |-> "line", x |-> x1, y |-> y1, w |-> 0, h |-> 0, x2 |-> x2, y2 |-> y2,
     curve |-> 0, text |-> NoText]

Text(x, y, t) ==
    [kind |-> "text", x |-> x, y |-> y, w |-> 0, h |-> 0, x2 |-> 0, y2 |-> 0,
     curve |-> 0, text |-> t]

\* Rectangle((x, y), w, h)
RectanglePatch(x, y, w, h) ==
    [kind |-> "rect", x |-> x, y |-> y, w |-> w, h |-> h, x2 |-> 0, y2 |-> 0,
     curve |-> 0, text |-> NoText]

\* FancyBboxPatch((x, y), w, h, boxstyle round)
FancyBbox(x, y, w, h) ==
    [kind |-> "fancybox", x |-> x, y |-> y, w |-> w, h |-> h, x2 |-> 0, y2 |-> 0,
     curve |-> 0, text |-> NoText]

\* Ellipse((cx, cy), w, h): x, y hold the centre
EllipsePatch(cx, cy, w, h) ==
    [kind |-> "ellipse", x |-> cx, y |-> cy, w |-> w, h |-> h, x2 |-> 0, y2 |-> 0,
     curve |-> 0, text |-> NoText]

\* FancyArrowPatch(start, end, connectionstyle arc3,rad=curve)
FancyArrow(sx, sy, ex, ey, curve) ==
    [kind |-> "arrow", x |-> sx, y |-> sy, w |-> 0, h |-> 0, x2 |-> ex, y2 |-> ey,
     curve |-> curve, text |-> NoText]

ShapeKinds == {"rect", "fancybox", "ellipse"}

----------------------------------------------------------------------------
\* generate_clio_proposal_diagrams.py: primitives

\* the grid loop of setup_canvas, iterations i..steps
RECURSIVE grid_lines(_, _)
grid_lines(i, steps) ==
    IF i > steps THEN <<>>
    ELSE LET p == (i * 10000) \div steps
         IN  <<Line(p, 0, p, 10000), Line(0, p, 10000, p)>> \o grid_lines(i + 1, steps)

setup_canvas(title, subtitle) ==
    grid_lines(0, 50)
    \o <<Text(200, 9750, title)>>
    \o (IF subtitle # NoText THEN <<Text(200, 9450, subtitle)>> ELSE <<>>)

draw_layer(x, y, w, h, title) ==
    <<RectanglePatch(x, y, w, h), Text(x + w \div 2, y + h - 150, <<title>>)>>

draw_rect(x, y, w, h, text) ==
    <<RectanglePatch(x, y, w, h), Text(x + w \div 2, y + h \div 2, text)>>

draw_round(x, y, w, h, text) ==
    <<FancyBbox(x, y, w, h), Text(x + w \div 2, y + h \div 2, text)>>

\* mutant: the slice keeps one row too many
draw_bullet_panel_cap5(x, y, w, h, title, lines) ==
    <<FancyBbox(x, y, w, h), Text(x + 150, y + h - 200, <<title>>)>>
    \o [i \in 1..Min(Len(lines), 5) |->
            Text(x + 180, (y + h - 500) - 280 * (i - 1), <<"- ", lines[i]>>)]

draw_bullet_panel(x, y, w, h, title, lines) ==
    LET shown == Prefix(lines, 4)
    IN  <<FancyBbox(x, y, w, h), Text(x + 150, y + h - 200, <<title>>)>>
        \o [i \in 1..Len(shown) |->
                Text(x + 180, (y + h - 500) - 280 * (i - 1), <<"- ", shown[i]>>)]

draw_ellipse(x, y, w, h, text) ==
    <<EllipsePatch(x + w \div 2, y + h \div 2, w, h),
      Text(x + w \div 2, y + h \div 2, text)>>

draw_database(x, y, w, h, title, subtitle) ==
    LET body_h == h - 500
    IN  <<RectanglePatch(x, y + 250, w, body_h),
          EllipsePatch(x + w \div 2, y + h - 50, w, 500),
          EllipsePatch(x + w \div 2, y + 250, w, 500),
          Text(x + w \div 2, y + h \div 2 + 200, <<title>>)>>
        \o (IF subtitle # "" THEN <<Text(x + w \div 2, y + h \div 2 - 200, <<subtitle>>)>>
            ELSE <<>>)

\* mutant: the label anchor follows the bend of the arc
arrow_label_on_arc(sx, sy, ex, ey, label, curve) ==
    <<FancyArrow(sx, sy, ex, ey, curve)>>
    \o (IF label # ""
        THEN <<Text((sx + ex) \div 2, (sy + ey) \div 2 + 120 + curve, <<label>>)>>
        ELSE <<>>)

arrow(sx, sy, ex, ey, label, curve) ==
    <<FancyArrow(sx, sy, ex, ey, curve)>>
    \o (IF label # ""
        THEN LET mx == (sx + ex) \div 2
                 my == (sy + ey) \div 2
             IN  <<Text(mx, my + 120, <<label>>)>>
        ELSE <<>>)

----------------------------------------------------------------------------
\* generate_role_dfd

RECURSIVE Flatten(_)
Flatten(ss) == IF ss = <<>> THEN <<>> ELSE Head(ss) \o Flatten(Tail(ss))

\* mutant: the stack pitch is 0.10
actor_stack_pitch10(actor_lines) ==
    Flatten([i \in 1..Len(actor_lines) |->
                draw_rect(400, 7200 - 1000 * (i - 1), 1400, 800, <<actor_lines[i]>>)])

\* "External actors": y = 0.72; per line draw_rect, y -= 0.11
RECURSIVE actor_loop(_, _)
actor_loop(lines, y) ==
    IF lines = <<>> THEN <<>>
    ELSE draw_rect(400, y, 1400, 800, <<Head(lines)>>) \o actor_loop(Tail(lines), y - 1100)

actor_stack(actor_lines) == actor_loop(actor_lines, 7200)

\* "Action stack": action_y = 0.73; per item draw_rect, action_y -= 0.09
RECURSIVE action_loop(_, _)
action_loop(items, action_y) ==
    IF items = <<>> THEN <<>>
    ELSE draw_rect(6800, action_y, 1600, 650, <<Head(items)>>)
         \o action_loop(Tail(items), action_y - 900)

\* mutant: the action pitch is 0.06, less than the box height
action_stack_pitch6(action_lines) ==
    Flatten([i \in 1..Len(action_lines) |->
                draw_rect(6800, 7300 - 600 * (i - 1), 1600, 650, <<action_lines[i]>>)])

action_stack(action_lines) == action_loop(action_lines, 7300)

\* every shape of the call, in call order
role_dfd_shapes(a) ==
    actor_stack(a.actor_lines)
    \o draw_rect(2300, 5600, 1400, 800, <<a.role_title>>)
    \o draw_ellipse(4500, 4900, 1800, 1600, <<a.process_label>>)
    \o draw_rect(4100, 7000, 2200, 600, <<"RBAC + Ownership Validation">>)
    \o action_stack(a.action_lines)
    \o draw_database(8800, 4800, 900, 2200, "CLIO DB", a.db_label)
    \o draw_database(8800, 1800, 900, 2000, "Audit Logs", "Tamper-resistant")
    \o draw_bullet_panel(2500, 1600, 2900, 1600, "Audit Focus", a.audit_lines)
    \o draw_bullet_panel(5600, 1600, 2200, 1600, "Security Notes", a.notes)

\* first_actor_center and the two conditional converging arrows
actor_arrows(actor_lines) ==
    arrow(1800, 7600, 2300, 6000, "Access", 0)
    \o (IF Len(actor_lines) > 1 THEN arrow(1800, 6500, 2300, 6000, "", 5) ELSE <<>>)
    \o (IF Len(actor_lines) > 2 THEN arrow(1800, 5400, 2300, 6000, "", 9) ELSE <<>>)

action_centers == <<7620, 6720, 5820, 4920, 4020>>

\* mutant: the table is not sliced to the number of action steps
action_arrows_unsliced(action_lines) ==
    Flatten([i \in 1..Len(action_centers) |->
                arrow(6300, 5700, 6800, action_centers[i], "", 2)])

\* for cy in action_centers[:len(action_lines)]: arrow(...)
action_arrows(action_lines) ==
    LET centers == Prefix(action_centers, Len(action_lines))
    IN  Flatten([i \in 1..Len(centers) |-> arrow(6300, 5700, 6800, centers[i], "", 2)])

\* every connector of the call, in call order
role_dfd_arrows(a) ==
    actor_arrows(a.actor_lines)
    \o arrow(3700, 6000, 4500, 5700, "Authorized request", 0)
    \o arrow(5200, 7000, 5200, 6500, "Policy checks", 0)
    \o action_arrows(a.action_lines)
    \o arrow(8400, 6300, 8800, 6000, "Read/Write", 0)
    \o arrow(8400, 3600, 8800, 2800, "Audit event", 0)
    \o arrow(8800, 5600, 6300, 5300, "Data response", -10)
    \o arrow(9300, 4800, 9300, 3800, "", 0)
    \o arrow(6300, 4900, 4600, 3200, "", -12)

role_dfd_canvas(a) ==
    setup_canvas(<<a.role_title, " Data Flow Diagram">>,
                 <<"Project CLIO Role-Centric Operational Flow">>)

----------------------------------------------------------------------------
\* pyplot's figure registry

\* plt.subplots(): a new figure, registered as open
plt_subplots_fig == nextFig + 1

\* mutant: the figure is never released
plt_close_leak(open, f) == open

\* plt.close(fig)
plt_close(open, f) == open \ {f}

----------------------------------------------------------------------------
\* generate_clio_architecture_png.py: primitives

\* "\n".join(lines)
RECURSIVE Join(_)
Join(lines) ==
    IF Len(lines) <= 1 THEN lines
    ELSE <<Head(lines), "\n">> \o Join(Tail(lines))

arch_draw_box(x, y, w, h, title, lines) ==
    <<FancyBbox(x, y, w, h),
      Text(x + 120, y + h - 300, <<title>>),
      Text(x + 120, y + h - 600, Join(lines))>>

arch_arrow(sx, sy, ex, ey, curve) == <<FancyArrow(sx, sy, ex, ey, curve)>>

\* main (architecture script): the title and subtitle texts
arch_canvas ==
    <<Text(300, 9650, <<"Project CLIO - HRIS System Architecture">>),
      Text(300, 9350, <<"Next.js + Firebase Auth + Firestore (databaseId: cliohris) + Firebase Storage + RBAC + IDS + Incident Response">>)>>

----------------------------------------------------------------------------
\* The fixed diagrams

layered_canvas ==
    setup_canvas(<<"Project CLIO - System Architecture">>,
                 <<"Current implementation view: Security, Client, Identity, API/Services, Data, Audit + Incident Response">>)

\* generate_layered_architecture: layers, boxes and data stores, in call order
layered_shapes ==
    draw_layer(200, 8000, 4200, 1800, "Security Layer")
    \o draw_layer(4600, 7800, 2200, 2000, "Client Layer")
    \o draw_layer(7000, 7800, 2800, 2000, "Identity Layer")
    \o draw_layer(300, 4700, 4400, 2800, "API + Domain Layer")
    \o draw_layer(4900, 4300, 2400, 3200, "Data Layer")
    \o draw_layer(7500, 4300, 2300, 3200, "Audit + Incident Layer")
    \o draw_rect(500, 8900, 1100, 550, <<"RBAC">>)
    \o draw_rect(1800, 8900, 1300, 550, <<"Ownership / IDOR Check">>)
    \o draw_rect(3300, 8900, 900, 550, <<"Rate Limit">>)
    \o draw_rect(500, 8200, 1700, 550, <<"CSP + HSTS + Security Headers">>)
    \o draw_rect(2400, 8200, 1800, 550, <<"Session Validation + Role Sync">>)
    \o draw_rect(5000, 9000, 1400, 550, <<"Web Browser">>)
    \o draw_rect(5000, 8300, 1400, 550, <<"Next.js UI (App Router)">>)
    \o draw_rect(5000, 7600, 1400, 550, <<"Role-Based Sidebar">>)
    \o draw_rect(7500, 9000, 1900, 550, <<"Firebase Auth (Google)">>)
    \o draw_rect(7500, 8300, 1900, 550, <<"Invite Verify + Session Issue">>)
    \o draw_rect(7500, 7600, 1900, 550, <<"Optional MFA Policy">>)
    \o draw_rect(600, 6700, 1800, 600, <<"API Routes (/api/hris/*)">>)
    \o draw_rect(2600, 6700, 1800, 600, <<"Auth/Invite/User APIs">>)
    \o draw_rect(600, 5900, 1800, 600, <<"Employee/Lifecycle APIs">>)
    \o draw_rect(2600, 5900, 1800, 600, <<"Attendance/Performance APIs">>)
    \o draw_rect(600, 5100, 1800, 600, <<"Exports/Retention APIs">>)
    \o draw_rect(2600, 5100, 1800, 600, <<"Incident/Notification APIs">>)
    \o draw_database(5300, 6000, 1600, 1100, "Firestore", "databaseId: cliohris")
    \o draw_rect(5100, 5100, 2000, 600, <<"Collections: users, employees,">>)
    \o draw_rect(5100, 4450, 2000, 600, <<"attendance, lifecycle, performance,">>)
    \o draw_rect(5100, 3800, 2000, 600, <<"exports, incidents, notifications, audit">>)
    \o draw_database(5300, 2800, 1600, 1100, "Firebase Storage", "gs://atracaas-platform-clio")
    \o draw_rect(7800, 6600, 1700, 600, <<"Audit Log Writer">>)
    \o draw_rect(7800, 5800, 1700, 600, <<"Forensic Log Views">>)
    \o draw_rect(7800, 5000, 1700, 600, <<"IDS Detection Rules">>)
    \o draw_rect(7800, 4200, 1700, 600, <<"Retry Queue + Dead Letter">>)
    \o draw_rect(7800, 3400, 1700, 600, <<"Incident Mgmt + Alerts">>)

\* generate_layered_architecture: "Arrows"
layered_arrows ==
    arrow(4200, 9200, 5000, 9200, "", 0)
    \o arrow(6400, 9200, 7500, 9200, "", 0)
    \o arrow(5700, 8300, 3500, 7000, "", -5)
    \o arrow(7500, 8600, 4400, 7000, "", 5)
    \o arrow(2400, 6700, 5300, 6600, "", 0)
    \o arrow(4400, 5900, 5300, 5900, "", 0)
    \o arrow(4400, 5100, 5300, 5100, "", 0)
    \o arrow(6900, 6400, 7800, 6900, "", 0)
    \o arrow(6900, 5600, 7800, 6100, "", 0)
    \o arrow(6900, 4800, 7800, 5300, "", 0)
    \o arrow(8600, 5000, 8600, 4800, "", 0)
    \o arrow(8600, 4200, 8600, 4000, "", 0)
    \o arrow(7800, 3700, 6900, 3400, "", -8)
    \o arrow(5300, 3300, 4400, 5500, "", 8)
    \o arrow(2900, 8900, 1600, 7200, "", -8)

\* main: the five generate_role_dfd calls, in order
main_role_calls == <<
    [output_path |-> "clio-dfd-super-admin.png", role_title |-> "Super Admin",
     actor_lines |-> <<"Super Admin", "Security Lead">>,
     process_label |-> "Account Governance Console",
     action_lines |-> <<"Create Invite / Account", "Assign Account Role", "Disable / Enable Account", "Revoke Sessions", "Audit Admin Actions">>,
     db_label |-> "users + invites",
     audit_lines |-> <<"Actor identity", "Before/after role state", "Invite + status transition", "Source IP and device">>,
     notes |-> <<"No shared accounts", "Least privilege enforcement", "Session version invalidation", "Admin actions fully auditable">>],
    [output_path |-> "clio-dfd-grc.png", role_title |-> "GRC",
     actor_lines |-> <<"GRC Officer", "Compliance Auditor", "Executive Committee">>,
     process_label |-> "Governance, Risk, Compliance Ops",
     action_lines |-> <<"Full Records Oversight", "Audit + Forensic Review", "Access Management Review", "Retention & Archive Control", "Incident Response Handling">>,
     db_label |-> "all HRIS modules",
     audit_lines |-> <<"PII access event", "Export volume and format", "Incident timeline", "Reviewer identity">>,
     notes |-> <<"Full read/edit authority per matrix", "Audit visibility across modules", "Breach escalation ownership", "Retention + deletion oversight">>],
    [output_path |-> "clio-dfd-hr.png", role_title |-> "HR",
     actor_lines |-> <<"HR Manager", "HR Officer">>,
     process_label |-> "HR Operations Workflow",
     action_lines |-> <<"Maintain Employee Records", "Run Lifecycle Workflows", "Manage Attendance Records", "Update Performance Data", "Manage HR Documents">>,
     db_label |-> "employee modules",
     audit_lines |-> <<"Create/update traceability", "Attendance modifications", "Document version history", "Performed by + timestamp">>,
     notes |-> <<"Restricted PII handling controls", "Operational HR authority", "Immediate offboarding revocation", "Changes logged for audit defense">>],
    [output_path |-> "clio-dfd-ea.png", role_title |-> "Executive Assistant",
     actor_lines |-> <<"Executive Office", "EA Operator">>,
     process_label |-> "Executive Support Workflow",
     action_lines |-> <<"View Employee Records", "Authorized Record Updates", "Employment Lifecycle Support", "Reports & Export Requests", "Document Coordination">>,
     db_label |-> "records + docs",
     audit_lines |-> <<"Authorization context", "Export justification", "Document access logs", "Action initiator">>,
     notes |-> <<"Edit rights only as authorized", "Full logging on exports/prints", "Document controls and versioning", "RBAC checks on every API request">>],
    [output_path |-> "clio-dfd-employee.png", role_title |-> "Employee (L1/L2/L3)",
     actor_lines |-> <<"Employee User", "HR/GRC Reviewer">>,
     process_label |-> "Self-Service Employee Workspace",
     action_lines |-> <<"View Own Profile Record", "Edit Personal Contact Info", "Clock In / Clock Out", "View Own Attendance + Performance", "Access Own Attached Documents">>,
     db_label |-> "own-scope data",
     audit_lines |-> <<"Ownership validation result", "Requested data scope", "Personal data change log", "Attendance action details">>,
     notes |-> <<"IDOR prevention via ownership check", "No access to other employees", "Least privilege by role level", "All actions logged with source metadata">>]
>>

\* main (architecture script): rows 1..3 of boxes, in call order
arch_boxes ==
    arch_draw_box(300, 7600, 2400, 1600, "Actors / Access Roles",
        <<"Super Admin", "GRC, HR, EA, Employee", "Invite-first onboarding + verified user activation", "Role-specific dashboard and module access">>)
    \o arch_draw_box(3100, 7200, 3000, 2200, "Client Layer - Next.js Frontend",
        <<"Public: login, invite verify, unauthorized", "Workspace: dashboard + role-based module navigation", "Core modules: employee records, lifecycle, attendance,", "performance, document repo, audit logs, reports/exports,", "access management, retention/archive, incident management">>)
    \o arch_draw_box(6600, 7200, 3100, 2200, "Identity Layer - Firebase Authentication",
        <<"Google provider for sign-in", "Invite verification gate before account usage", "ID token verification + session creation path", "Optional MFA policy at Firebase project level">>)
    \o arch_draw_box(300, 5200, 2400, 2000, "Security Gateway",
        <<"Middleware route guarding + role route isolation", "Signed session cookie + stale session checks", "API authorization: RBAC + ownership validation", "Rate limiting on sensitive incident endpoints">>)
    \o arch_draw_box(3100, 5000, 3000, 2200, "Application API Layer (src/app/api)",
        <<"Auth APIs, invite/verify, user/account management", "Module APIs: employees, lifecycle, attendance,", "performance, templates, exports, retention, incidents", "Notification APIs and role-protected data endpoints">>)
    \o arch_draw_box(6600, 5000, 3100, 2200, "Service / Domain Layer (src/lib + src/services)",
        <<"RBAC matrix + permission middleware helpers", "HRIS backend services for module workflows", "Audit log writer + field-level trace metadata", "Incident detection (IDS), queue retry, dead-letter", "Security notification and alert dispatch services">>)
    \o arch_draw_box(3100, 2300, 3000, 2100, "Data Layer - Firestore + Storage",
        <<"Firestore (databaseId: cliohris):", "clio_users, employees, attendance, performance,", "employment_lifecycle, clio_audit_logs, incidents,", "notifications, retention/archive collections", "Storage bucket: gs://atracaas-platform-clio">>)
    \o arch_draw_box(6600, 2300, 3100, 2100, "Security Operations Layer",
        <<"Tamper-evident audit trails across CRUD/view/export", "Incident management: escalation, 72-hour response,", "forensic logging (access, export, admin, delete)", "IDS anomaly detection -> auto incident + alerts", "Retry queue and dead-letter for failed detections">>)
    \o arch_draw_box(300, 2400, 2400, 2100, "Compliance + Protection Controls",
        <<"Least privilege and segregation of duties", "Restricted PII masking + controlled access", "Retention/archive policy + delayed purge workflow", "Security headers, CSP, HSTS (prod), provider fail-fast">>)

\* main (architecture script): "Arrows"
arch_arrows ==
    arch_arrow(2700, 8400, 3100, 8300, 0)
    \o arch_arrow(6100, 8300, 6600, 8300, 0)
    \o arch_arrow(4600, 7200, 4600, 6400, 0)
    \o arch_arrow(2000, 7600, 1600, 6200, 0)
    \o arch_arrow(2700, 6200, 3100, 6200, 0)
    \o arch_arrow(6100, 6200, 6600, 6200, 0)
    \o arch_arrow(4600, 5000, 4600, 4400, 0)
    \o arch_arrow(8200, 5000, 8200, 4400, 0)
    \o arch_arrow(6600, 8200, 5500, 6400, 5)
    \o arch_arrow(8200, 7200, 8200, 6400, 0)
    \o arch_arrow(6100, 3300, 6600, 3300, 0)
    \o arch_arrow(3100, 3300, 2700, 3300, 0)
    \o arch_arrow(8200, 2300, 5500, 1800, -5)

\* main (architecture script): "Flow legend", legend_x, legend_y, legend_w, legend_h = 0.03, 0.04, 0.94, 0.14
arch_legend ==
    arch_draw_box(300, 400, 9400, 1400, "Key Runtime Flows",
        <<"1) Onboarding/invite flow: authorized role creates user/account context -> invite verification -> Google sign-in enabled.", "2) Secure request flow: frontend -> API authz (session, RBAC, ownership, rate-limit) -> domain service -> Firestore/Storage.", "3) Security flow: audit event stream -> IDS anomaly detection -> auto incident + in-app alerts + forensic traceability.", "4) Data governance flow: offboarding/retention rules move records to archive and enforce controlled post-retention deletion.">>)

----------------------------------------------------------------------------
\* Inputs of a direct call of generate_role_dfd

Names(n) == [i \in 1..n |-> ToString(i)]

Reverse(s) == [i \in 1..Len(s) |-> s[Len(s) + 1 - i]]

ActorInputs == {Names(n) : n \in 0..MaxActors}

ActionInputs == {Names(n) : n \in 0..MaxActions}

AuditInputs == {Names(n) : n \in 0..MaxLines} \cup {Reverse(Names(MaxLines))}

NotesInputs == {Names(n) : n \in 0..MaxLines}

DirectArgs ==
    [output_path : {"direct.png"}, role_title : {"Role"}, actor_lines : ActorInputs,
     process_label : {"Process"}, action_lines : ActionInputs, db_label : {"", "db"},
     audit_lines : AuditInputs, notes : NotesInputs]

NoArgs ==
    [output_path |-> "", role_title |-> "", actor_lines |-> <<>>, process_label |-> "",
     action_lines |-> <<>>, db_label |-> "", audit_lines |-> <<>>, notes |-> <<>>]

----------------------------------------------------------------------------
Init ==
    /\ script = "none"
    /\ status = "idle"
    /\ mainpc = 0
    /\ gen = "none"
    /\ pc = "none"
    /\ args = NoArgs
    /\ fig = 0
    /\ ops = <<>>
    /\ openFigs = {}
    /\ nextFig = 0
    /\ figUsers = <<>>
    /\ calls = 0
    /\ dirExists = FALSE
    /\ artifacts = {}
    /\ printed = <<>>
    /\ ioError = FALSE

\* Entry of a generator: fig, ax = plt.subplots(...) and the canvas dressing.
EnterGenerator(g, a, canvas) ==
    /\ gen' = g
    /\ pc' = "canvas"
    /\ args' = a
    /\ calls' = calls + 1
    /\ fig' = plt_subplots_fig
    /\ nextFig' = plt_subplots_fig
    /\ openFigs' = openFigs \cup {plt_subplots_fig}
    /\ figUsers' = Append(figUsers, {calls + 1})
    /\ ops' = canvas

\* A caller other than main invokes generate_role_dfd(output_path, ...).
DirectCall ==
    /\ script \in {"none", "direct"}
    /\ status \in {"idle", "running"}
    /\ gen = "none"
    /\ calls < MaxCalls
    /\ \E a \in DirectArgs : EnterGenerator("role", a, role_dfd_canvas(a))
    /\ script' = "direct"
    /\ status' = "running"
    /\ UNCHANGED <<mainpc, dirExists, artifacts, printed, ioError>>

\* generate_role_dfd, lines "External actors" .. "Notes and audit panels"
RoleShapes ==
    /\ status = "running" /\ gen = "role" /\ pc = "canvas"
    /\ ops' = ops \o role_dfd_shapes(args)
    /\ figUsers' = [figUsers EXCEPT ![fig] = @ \cup {calls}]
    /\ pc' = "shapes"
    /\ UNCHANGED <<script, status, mainpc, gen, args, fig, openFigs, nextFig, calls,
                   dirExists, artifacts, printed, ioError>>

\* generate_role_dfd, lines "Arrows"
RoleArrows ==
    /\ status = "running" /\ gen = "role" /\ pc = "shapes"
    /\ ops' = ops \o role_dfd_arrows(args)
    /\ figUsers' = [figUsers EXCEPT ![fig] = @ \cup {calls}]
    /\ pc' = "arrows"
    /\ UNCHANGED <<script, status, mainpc, gen, args, fig, openFigs, nextFig, calls,
                   dirExists, artifacts, printed, ioError>>

\* generate_layered_architecture, layers .. "Audit + incident"
LayeredShapes ==
    /\ status = "running" /\ gen = "layered" /\ pc = "canvas"
    /\ ops' = ops \o layered_shapes
    /\ figUsers' = [figUsers EXCEPT ![fig] = @ \cup {calls}]
    /\ pc' = "shapes"
    /\ UNCHANGED <<script, status, mainpc, gen, args, fig, openFigs, nextFig, calls,
                   dirExists, artifacts, printed, ioError>>

\* generate_layered_architecture, "Arrows"
LayeredArrows ==
    /\ status = "running" /\ gen = "layered" /\ pc = "shapes"
    /\ ops' = ops \o layered_arrows
    /\ figUsers' = [figUsers EXCEPT ![fig] = @ \cup {calls}]
    /\ pc' = "arrows"
    /\ UNCHANGED <<script, status, mainpc, gen, args, fig, openFigs, nextFig, calls,
                   dirExists, artifacts, printed, ioError>>

\* main (architecture script), "Row 1" .. "Row 3"
ArchBoxes ==
    /\ status = "running" /\ gen = "arch" /\ pc = "canvas"
    /\ ops' = ops \o arch_boxes
    /\ figUsers' = [figUsers EXCEPT ![fig] = @ \cup {calls}]
    /\ pc' = "shapes"
    /\ UNCHANGED <<script, status, mainpc, gen, args, fig, openFigs, nextFig, calls,
                   dirExists, artifacts, printed, ioError>>

\* main (architecture script), "Arrows"
ArchArrows ==
    /\ status = "running" /\ gen = "arch" /\ pc = "shapes"
    /\ ops' = ops \o arch_arrows
    /\ figUsers' = [figUsers EXCEPT ![fig] = @ \cup {calls}]
    /\ pc' = "arrows"
    /\ UNCHANGED <<script, status, mainpc, gen, args, fig, openFigs, nextFig, calls,
                   dirExists, artifacts, printed, ioError>>

\* main (architecture script), "Flow legend"
ArchLegend ==
    /\ status = "running" /\ gen = "arch" /\ pc = "arrows"
    /\ ops' = ops \o arch_legend
    /\ figUsers' = [figUsers EXCEPT ![fig] = @ \cup {calls}]
    /\ pc' = "legend"
    /\ UNCHANGED <<script, status, mainpc, gen, args, fig, openFigs, nextFig, calls,
                   dirExists, artifacts, printed, ioError>>

\* the output path of the running generator
OutputPath ==
    CASE gen = "role" -> args.output_path
      [] gen = "layered" -> "clio-system-architecture-proposal.png"
      [] OTHER -> "clio-system-architecture.png"

\* every draw call of the generator has been made
ReadyToSave ==
    \/ gen \in {"role", "layered"} /\ pc = "arrows"
    \/ gen = "arch" /\ pc = "legend"

\* mutant: an exception of savefig is swallowed and the run goes on
on_savefig_error_swallow(st) == st

\* savefig raises: nothing catches it, the process dies with a traceback
on_savefig_error(st) == "failed"

\* fig.savefig(output_path, bbox_inches="tight") returns
SaveFig ==
    /\ status = "running" /\ ReadyToSave
    /\ script = "direct" \/ dirExists
    /\ artifacts' = artifacts \cup {OutputPath}
    /\ pc' = "saved"
    /\ UNCHANGED <<script, status, mainpc, gen, args, fig, ops, openFigs, nextFig,
                   figUsers, calls, dirExists, printed, ioError>>

\* fig.savefig raises (directory unwritable, disk full, ...)
SaveFigFails ==
    /\ status = "running" /\ ReadyToSave
    /\ ioError' = TRUE
    /\ status' = on_savefig_error(status)
    /\ pc' = IF status' = "failed" THEN pc ELSE "saved"
    /\ UNCHANGED <<script, mainpc, gen, args, fig, ops, openFigs, nextFig,
                   figUsers, calls, dirExists, artifacts, printed>>

\* plt.close(fig) and return to the caller: the figure, its axes and the
\* locals of the call are gone
CloseAndReturn ==
    /\ status = "running" /\ gen # "none" /\ pc = "saved"
    /\ openFigs' = plt_close(openFigs, fig)
    /\ gen' = "none"
    /\ pc' = "none"
    /\ fig' = 0
    /\ args' = NoArgs
    /\ ops' = <<>>
    /\ mainpc' = IF script = "direct" THEN mainpc ELSE mainpc + 1
    /\ UNCHANGED <<script, status, nextFig, figUsers, calls, dirExists,
                   artifacts, printed, ioError>>

----------------------------------------------------------------------------
\* The two mains

\* Path("docs/architecture").mkdir(parents=True, exist_ok=True) returns
Mkdir ==
    /\ script = "none" /\ status = "idle"
    /\ \E sc \in {"proposal", "architecture"} : script' = sc
    /\ status' = "running"
    /\ dirExists' = TRUE
    /\ mainpc' = 1
    /\ UNCHANGED <<gen, pc, args, fig, ops, openFigs, nextFig, figUsers, calls,
                   artifacts, printed, ioError>>

\* mkdir raises (parent not writable, a file is in the way)
MkdirFails ==
    /\ script = "none" /\ status = "idle"
    /\ \E sc \in {"proposal", "architecture"} : script' = sc
    /\ status' = "failed"
    /\ ioError' = TRUE
    /\ UNCHANGED <<mainpc, gen, pc, args, fig, ops, openFigs, nextFig, figUsers, calls,
                   dirExists, artifacts, printed>>

\* main: generate_layered_architecture(out / "clio-system-architecture-proposal.png")
MainCallLayered ==
    /\ script = "proposal" /\ status = "running" /\ gen = "none" /\ mainpc = 1
    /\ EnterGenerator("layered", NoArgs, layered_canvas)
    /\ UNCHANGED <<script, status, mainpc, dirExists, artifacts, printed, ioError>>

\* main: the next generate_role_dfd(out / ..., ...) call
MainCallRole ==
    /\ script = "proposal" /\ status = "running" /\ gen = "none"
    /\ mainpc \in 2..(Len(main_role_calls) + 1)
    /\ LET a == main_role_calls[mainpc - 1]
       IN  EnterGenerator("role", a, role_dfd_canvas(a))
    /\ UNCHANGED <<script, status, mainpc, dirExists, artifacts, printed, ioError>>

\* sorted(out.glob("clio-*.png")) over the names this model can hold
SortedClioNames ==
    <<"clio-dfd-ea.png", "clio-dfd-employee.png", "clio-dfd-grc.png", "clio-dfd-hr.png",
      "clio-dfd-super-admin.png", "clio-system-architecture-proposal.png",
      "clio-system-architecture.png">>

InArtifacts(name) == name \in artifacts

\* main: print("Generated proposal-aligned diagrams:") and one line per file
MainPrint ==
    /\ script = "proposal" /\ status = "running" /\ gen = "none"
    /\ mainpc = Len(main_role_calls) + 2
    /\ LET found == SelectSeq(SortedClioNames, InArtifacts)
       IN  printed' = printed \o <<<<"Generated proposal-aligned diagrams:">>>>
                      \o [i \in 1..Len(found) |-> <<"- ", "docs/architecture/", found[i]>>]
    /\ status' = "done"
    /\ mainpc' = mainpc + 1
    /\ UNCHANGED <<script, gen, pc, args, fig, ops, openFigs, nextFig, figUsers, calls,
                   dirExists, artifacts, ioError>>

\* main (architecture script): fig, ax = plt.subplots(...), title and subtitle
ArchCanvas ==
    /\ script = "architecture" /\ status = "running" /\ gen = "none" /\ mainpc = 1
    /\ EnterGenerator("arch", NoArgs, arch_canvas)
    /\ UNCHANGED <<script, status, mainpc, dirExists, artifacts, printed, ioError>>

\* main (architecture script): print(f"Generated: {output_png}")
ArchPrint ==
    /\ script = "architecture" /\ status = "running" /\ gen = "none" /\ mainpc = 2
    /\ printed' = Append(printed,
                         <<"Generated: ", "docs/architecture/", "clio-system-architecture.png">>)
    /\ status' = "done"
    /\ mainpc' = mainpc + 1
    /\ UNCHANGED <<script, gen, pc, args, fig, ops, openFigs, nextFig, figUsers, calls,
                   dirExists, artifacts, ioError>>

Next ==
    \/ DirectCall
    \/ RoleShapes
    \/ RoleArrows
    \/ LayeredShapes
    \/ LayeredArrows
    \/ ArchBoxes
    \/ ArchArrows
    \/ ArchLegend
    \/ SaveFig
    \/ SaveFigFails
    \/ CloseAndReturn
    \/ Mkdir
    \/ MkdirFails
    \/ MainCallLayered
    \/ MainCallRole
    \/ MainPrint
    \/ ArchCanvas
    \/ ArchPrint

Spec == Init /\ [][Next]_vars

----------------------------------------------------------------------------
\* arrow as a function of its arguments: a caller draws one connector on an
\* axes of its own

MaxCoord == 2

Coords == {2000 * k : k \in 0..MaxCoord}

ArrowArgs ==
    {a \in [sx : Coords, sy : Coords, ex : Coords, ey : Coords,
            label : {"", "Label"}, curve : {-10, 0, 5}] :
        <<a.sx, a.sy>> # <<a.ex, a.ey>>}

InitArrow ==
    /\ script = "direct"
    /\ status = "running"
    /\ mainpc = 0
    /\ gen = "arrow"
    /\ pc = "entry"
    /\ args \in ArrowArgs
    /\ fig = 0
    /\ ops = <<>>
    /\ openFigs = {}
    /\ nextFig = 0
    /\ figUsers = <<>>
    /\ calls = 0
    /\ dirExists = FALSE
    /\ artifacts = {}
    /\ printed = <<>>
    /\ ioError = FALSE

ArrowCall ==
    /\ gen = "arrow" /\ pc = "entry"
    /\ ops' = arrow(args.sx, args.sy, args.ex, args.ey, args.label, args.curve)
    /\ pc' = "drawn"
    /\ UNCHANGED <<script, status, mainpc, gen, args, fig, openFigs, nextFig, figUsers,
                   calls, dirExists, artifacts, printed, ioError>>

NextArrow == ArrowCall

SpecArrow == InitArrow /\ [][NextArrow]_vars

----------------------------------------------------------------------------
\* Reading the draw list

IsArrow(o) == o.kind = "arrow"

IsShape(o) == o.kind \in ShapeKinds

IsShapeOrArrow(o) == IsShape(o) \/ IsArrow(o)

\* boxes of the left (actor) column and of the right (action) column
IsActorBox(o) == o.kind = "rect" /\ o.x = 400 /\ o.w = 1400 /\ o.h = 800

IsActionBox(o) == o.kind = "rect" /\ o.x = 6800 /\ o.w = 1600 /\ o.h = 650

\* connectors leaving the actor column, connectors entering the action column
IsActorArrow(o) == o.kind = "arrow" /\ o.x = 1800

IsActionArrow(o) == o.kind = "arrow" /\ o.x2 = 6800

ActorBoxes == SelectSeq(ops, IsActorBox)

ActionBoxes == SelectSeq(ops, IsActionBox)

ActorArrows == SelectSeq(ops, IsActorArrow)

ActionArrows == SelectSeq(ops, IsActionArrow)

\* generate_role_dfd has made every draw call
RoleDrawn == gen = "role" /\ pc \in {"arrows", "saved"}

\* point (px, py) lies in the rectangle of o, boundary included
OnRect(px, py, o) ==
    /\ o.x <= px /\ px <= o.x + o.w
    /\ o.y <= py /\ py <= o.y + o.h

NActors == Len(args.actor_lines)

NActions == Len(args.action_lines)

\* bullet rows of the panel whose left edge is at x
BulletRows(x) ==
    SelectSeq(ops, LAMBDA o : o.kind = "text" /\ o.x = x + 180 /\ Len(o.text) = 2)

\* the connector whose label is lab (arrow appends the label right after it)
LabelledArrow(lab) ==
    LET i == CHOOSE k \in 1..(Len(ops) - 1) :
                 ops[k].kind = "arrow" /\ ops[k + 1].kind = "text"
                 /\ ops[k + 1].text = <<lab>>
    IN  ops[i]

----------------------------------------------------------------------------
\* C1 as stated: with 1..3 actors and 1..5 action steps the call draws
\* |actor_lines| actor boxes, |action_lines| action boxes and
\* |actor_lines| + |action_lines| + 5 connectors.
C1_CountPlusFive ==
    (RoleDrawn /\ NActors \in 1..3 /\ NActions \in 1..5) =>
        /\ Len(ActorBoxes) = NActors
        /\ Len(ActionBoxes) = NActions
        /\ Len(SelectSeq(ops, IsArrow)) = NActors + NActions + 5

\* C1 amended: the same counts of boxes, and |actor_lines| + |action_lines| + 7
\* connectors (seven skeleton connectors: authorized request, policy checks,
\* read/write, audit event, data response, store to store, process to panel).
C1_CountPlusSeven ==
    (RoleDrawn /\ NActors \in 1..3 /\ NActions \in 1..5) =>
        /\ Len(ActorBoxes) = NActors
        /\ Len(ActionBoxes) = NActions
        /\ Len(SelectSeq(ops, IsArrow)) = NActors + NActions + 7

C1_Witness ==
    /\ RoleDrawn /\ NActors = 2 /\ NActions = 3
    /\ Len(SelectSeq(ops, IsArrow)) = 12

\* C2: each bullet panel of generate_role_dfd draws min(|lines|, 4) rows, the
\* first rows of its list in order, top-down from 0.05 below the panel top at
\* a pitch of 0.028, all below the title, whatever the length of the list,
\* and the call has not failed.
PanelRowsOk(x, y, h, lines) ==
    LET rows == BulletRows(x)
    IN  /\ Len(rows) = Min(Len(lines), 4)
        /\ \A i \in 1..Len(rows) :
              /\ rows[i].text = <<"- ", lines[i]>>
              /\ rows[i].y = (y + h - 500) - 280 * (i - 1)
              /\ rows[i].y < y + h - 200

C2_PanelCap ==
    (gen = "role" /\ pc \in {"shapes", "arrows", "saved"}) =>
        /\ PanelRowsOk(2500, 1600, 1600, args.audit_lines)
        /\ PanelRowsOk(5600, 1600, 1600, args.notes)
        /\ pc = "shapes" => status = "running"

C2_Witness ==
    /\ gen = "role" /\ pc = "shapes"
    /\ Len(args.audit_lines) > 4 /\ args.audit_lines[1] # "1"
    /\ Len(args.notes) > 4
    /\ Len(BulletRows(2500)) = 4 /\ Len(BulletRows(5600)) = 4

\* C3: in every generator no shape is drawn after a connector: among the
\* shapes and connectors of a figure, in draw order, all shapes come first.
C3_ShapesBeforeConnectors ==
    LET both == SelectSeq(ops, IsShapeOrArrow)
        nShapes == Len(SelectSeq(ops, IsShape))
    IN  \A i \in 1..nShapes : IsShape(both[i])

\* C4: with more than 3 actors or more than 5 action steps nothing is drawn
\* for the excess items, neither a box nor a connector, and no error is raised.
C4_ExcessDropped ==
    (RoleDrawn /\ (NActors > 3 \/ NActions > 5)) =>
        /\ status # "failed"
        /\ Len(ActorBoxes) <= 3 /\ Len(ActorArrows) <= 3
        /\ Len(ActionBoxes) <= 5 /\ Len(ActionArrows) <= 5

\* C5: with 1..3 actors, actor box i sits at y = 0.72 - 0.11 i, its connector
\* starts at the middle of the box's right edge and ends at (0.23, 0.60) on
\* the left edge of the gateway box, with curvature 0, 0.05, 0.09.
C5_ActorFan ==
    (RoleDrawn /\ NActors \in 1..3) =>
        /\ Len(ActorBoxes) = NActors
        /\ Len(ActorArrows) = NActors
        /\ \A i \in 1..NActors :
              LET b == ActorBoxes[i]
                  c == ActorArrows[i]
              IN  /\ b.y = 7200 - 1100 * (i - 1)
                  /\ c.x = b.x + b.w /\ 2 * c.y = 2 * b.y + b.h
                  /\ c.x2 = 2300 /\ c.y2 = 6000
                  /\ c.curve = <<0, 5, 9>>[i]
                  /\ \E g \in {ops[k] : k \in 1..Len(ops)} :
                        /\ g.kind = "rect" /\ g.x = c.x2 /\ g.w = 1400
                        /\ g.y <= c.y2 /\ c.y2 <= g.y + g.h

C5_Witness ==
    /\ RoleDrawn /\ NActors = 3
    /\ Len(ActorArrows) = 3 /\ ActorArrows[3].y = 5400 /\ ActorBoxes[3].y = 5000

\* C6: with 1..5 action steps, the vertical centre of action box i is entry i
\* of [0.762, 0.672, 0.582, 0.492, 0.402], the end point of its connector.
C6_ActionCentres ==
    (RoleDrawn /\ NActions \in 1..5) =>
        /\ Len(ActionBoxes) = NActions
        /\ Len(ActionArrows) = NActions
        /\ \A i \in 1..NActions :
              /\ 2 * ActionBoxes[i].y + ActionBoxes[i].h = 2 * action_centers[i]
              /\ ActionArrows[i].y2 = action_centers[i]

\* C7: every generator call allocates one figure of its own and closes it
\* before it returns: while a call runs its figure is the only open one,
\* between completed calls no figure is open, and no figure is used by two
\* calls.
C7_FigurePerCall ==
    /\ nextFig = calls
    /\ Len(figUsers) = nextFig
    /\ \A f \in 1..nextFig : figUsers[f] = {f}
    /\ gen # "none" => (fig = calls /\ openFigs = {fig})
    /\ (gen = "none" /\ status # "failed") => openFigs = {}

C7_Witness ==
    /\ script = "proposal" /\ gen = "none" /\ status = "done"
    /\ calls = 6 /\ openFigs = {}

\* C8: once mkdir or savefig has raised in a run of main the run is dead: no
\* further generator call, no printed line, and the artifacts written before
\* stay as they are.
C8_FailureIsFatal ==
    [][(script' \in {"proposal", "architecture"} /\ ioError') =>
          /\ status' = "failed"
          /\ calls' = calls
          /\ printed' = printed /\ printed = <<>>
          /\ artifacts' = artifacts]_vars

C8_Witness ==
    /\ script = "proposal" /\ ioError /\ status = "failed"
    /\ calls = 3 /\ Cardinality(artifacts) = 2 /\ printed = <<>>

C10_ReadWriteFromLastAction ==
    (RoleDrawn /\ NActions \in 1..5) =>
        LET rw == LabelledArrow("Read/Write")
        IN  /\ Len(ActionBoxes) = NActions
            /\ OnRect(rw.x, rw.y, ActionBoxes[NActions])
            /\ OnRect(rw.x2, rw.y2, [x |-> 8800, y |-> 4800, w |-> 900, h |-> 2200])

\* The nominal (x, y, w, h) rectangle a shape was placed with: an ellipse by
\* its bounding box, a data-store cylinder by the rectangle passed to
\* draw_database (its body patch starts 0.025 higher and is 0.05 shorter).
NominalRect(o) ==
    CASE o.kind = "ellipse" ->
             [x |-> o.x - o.w \div 2, y |-> o.y - o.h \div 2, w |-> o.w, h |-> o.h]
      [] o.kind = "rect" /\ o.x = 8800 ->
             [x |-> o.x, y |-> o.y - 250, w |-> o.w, h |-> o.h + 500]
      [] OTHER -> [x |-> o.x, y |-> o.y, w |-> o.w, h |-> o.h]

\* the caps of a cylinder are parts of it, not shapes placed on their own
IsCylinderCap(o) == o.kind = "ellipse" /\ o.w = 900 /\ o.h = 500

IsPlacedShape(o) == IsShape(o) /\ ~IsCylinderCap(o)

PlacedShapes == SelectSeq(ops, IsPlacedShape)

\* two rectangles share no point
Disjoint(a, b) ==
    \/ a.x + a.w < b.x \/ b.x + b.w < a.x
    \/ a.y + a.h < b.y \/ b.y + b.h < a.y

\* C11: with 1..3 actors and 1..5 action steps no two shapes placed by
\* generate_role_dfd overlap (nominal rectangles): stacked boxes are disjoint
\* from each other and from the gateway, the validation box, the process
\* ellipse, both cylinders and both panels.
C11_NoOverlap ==
    (RoleDrawn /\ NActors \in 1..3 /\ NActions \in 1..5) =>
        /\ Len(PlacedShapes) = NActors + NActions + 7
        /\ \A i, j \in 1..Len(PlacedShapes) :
              i < j => Disjoint(NominalRect(PlacedShapes[i]), NominalRect(PlacedShapes[j]))

C11_Witness ==
    /\ RoleDrawn /\ NActors = 3 /\ NActions = 5
    /\ Len(ActorBoxes) = 3 /\ Len(ActionBoxes) = 5
    /\ ActionBoxes[5].y = 3700 /\ Len(PlacedShapes) = 15

\* C12: for lists of any length no stack connector dangles: every connector
\* leaving the actor column starts on an actor box drawn in the call, every
\* connector entering the action column ends on an action box drawn in it.
C12_NoDanglingConnector ==
    RoleDrawn =>
        /\ \A i \in 1..Len(ActorArrows) :
              \E k \in 1..Len(ActorBoxes) :
                  OnRect(ActorArrows[i].x, ActorArrows[i].y, ActorBoxes[k])
        /\ \A i \in 1..Len(ActionArrows) :
              \E k \in 1..Len(ActionBoxes) :
                  OnRect(ActionArrows[i].x2, ActionArrows[i].y2, ActionBoxes[k])

====
